---- MODULE Spec2Model ----
(***************************************************************************)
(* A model of src/src/picoModal.js: the element builder (make), the three  *)
(* element builders, the memoized lazy accessors, the observable channels  *)
(* with their deferred (setTimeout) dispatch, and the modal facade.        *)
(*                                                                         *)
(* A handler is evaluated as a chain of steps over a "world" record w: the *)
(* closure variables (fn), the memo cells (memo), the DOM (dom), the timer *)
(* queue (timers), the owed callbacks (owed), the exception (err) and     *)
(* the value of the last expression (ret).  A step that finds err set      *)
(* leaves the world alone, so the effects made before a throw are kept.    *)
(***************************************************************************)
EXTENDS Integers, Sequences, FiniteSets, TLC

\* ---------------------------------------------------------------- bounds
NumModals == 2
MaxCallbacks == 2
MaxTimers == 2
MaxWidth == 3
MaxClientWidth == 2
MaxChain == 3          \* class names, children and listeners one handle adds

Instances == 1..NumModals
Kinds == {"shadow", "modal", "close"}
Channels == {"create", "show", "close"}

VARIABLES
    modals,     \* the instances picoModal has constructed
    options,    \* options[i]: the options object picoModal(i) closed over
    layout,     \* layout[i]: the clientWidth the browser measures for the content
    fn,         \* fn[i][v]: the closure variables modalElem, shadowElem, closeElem
    memo,       \* memo[i][k]: notCalled / result of each memoized builder
    dom,        \* dom[i][k]: the div made for the overlay, content box, close button
    callbacks,  \* callbacks[i][c]: the callbacks array of each observable
    timers,     \* the window's queue of setTimeout(..., 1) tasks, oldest first
    owed,       \* history: owed[i][c][n] = events of channel c since callback n was
                \* registered, less the invocations of callback n
    last        \* the last operation: instance, name, exception, returned value,
                \* channels triggered and callbacks invoked while it ran

vars == <<modals, options, layout, fn, memo, dom, callbacks, timers, owed, last>>

\* ---------------------------------------------------------------- values
Undef == [t |-> "undefined", i |-> 0, k |-> ""]
Handle(i, k) == [t |-> "handle", i |-> i, k |-> k]
Elem(i, k) == [t |-> "elem", i |-> i, k |-> k]
Body == [t |-> "body", i |-> 0, k |-> ""]
Facade(i) == [t |-> "modal", i |-> i, k |-> ""]
MemoFn(k) == [t |-> "memo", i |-> 0, k |-> k]

Px(n) == [n |-> n, d |-> 1, u |-> "px"]

\* mutant: the half is taken with integer division
NegHalfPxTruncated(width) == [n |-> -(width \div 2), d |-> 1, u |-> "px"]

\* -(width / 2) + "px" : JavaScript numbers divide exactly, so the quotient is
\* kept as a reduced fraction n/d
NegHalfPx(width) ==
    IF width % 2 = 0 THEN [n |-> -(width \div 2), d |-> 1, u |-> "px"]
                     ELSE [n |-> -width, d |-> 2, u |-> "px"]

NoElem == [made |-> 0, parentNode |-> Undef, style |-> <<>>, className |-> <<>>,
           html |-> <<>>, onclick |-> <<>>]

\* ---------------------------------------------------------------- helpers
isNode(value) == value.type = "node"

isString(value) == value.type = "string"

Throw(w, e) == [w EXCEPT !.err = e, !.ret = Undef]

\* options[opt] === void(0) ? defaultValue : options[opt]
getOption(i, opt, defaultValue) ==
    IF opt \in DOMAIN options[i] THEN options[i][opt] ELSE defaultValue

\* ---------------------------------------------------------------- make
\* document.createElement('div'); (parent || document.body).appendChild(elem)
make(w, i, k, parent) ==
    IF w.err # "none" THEN w
    ELSE [w EXCEPT !.dom[i][k] = [NoElem EXCEPT !.made = w.dom[i][k].made + 1,
                                                !.parentNode = IF parent = Undef THEN Body ELSE parent],
                   !.ret = Handle(i, k)]

child(w, i, k) ==
    IF w.err # "none" THEN w
    ELSE IF w.ret.t # "handle" THEN Throw(w, "TypeError")
    ELSE make(w, i, k, Elem(w.ret.i, w.ret.k))

\* styles.filter = "alpha(opacity=" + (styles.opacity * 100) + ")"
withFilter(styles) ==
    IF "opacity" \in DOMAIN styles
    THEN ("filter" :> [alpha |-> (styles["opacity"].n * 100) \div styles["opacity"].d]) @@ styles
    ELSE styles

stylize(w, styles) ==
    IF w.err # "none" THEN w
    ELSE IF w.ret.t # "handle" THEN Throw(w, "TypeError")
    ELSE [w EXCEPT !.dom[w.ret.i][w.ret.k].style = withFilter(styles) @@ @]

\* mutant: clazz has no return statement
clazzNoReturn(w, name) ==
    IF w.err # "none" THEN w
    ELSE IF w.ret.t # "handle" THEN Throw(w, "TypeError")
    ELSE [w EXCEPT !.dom[w.ret.i][w.ret.k].className = Append(@, name), !.ret = Undef]

clazz(w, name) ==
    IF w.err # "none" THEN w
    ELSE IF w.ret.t # "handle" THEN Throw(w, "TypeError")
    ELSE [w EXCEPT !.dom[w.ret.i][w.ret.k].className = Append(@, name)]

html(w, content) ==
    IF w.err # "none" THEN w
    ELSE IF w.ret.t # "handle" THEN Throw(w, "TypeError")
    ELSE [w EXCEPT !.dom[w.ret.i][w.ret.k].html =
            IF isNode(content) THEN Append(@, content) ELSE <<content>>]

onClick(w, callback) ==
    IF w.err # "none" THEN w
    ELSE IF w.ret.t # "handle" THEN Throw(w, "TypeError")
    ELSE [w EXCEPT !.dom[w.ret.i][w.ret.k].onclick = Append(@, callback)]

\* mutant: destroy hides the element and leaves it in the document
destroyHides(w) ==
    IF w.err # "none" THEN w
    ELSE IF w.ret.t # "handle" THEN Throw(w, "TypeError")
    ELSE [w EXCEPT !.dom[w.ret.i][w.ret.k].style = ("display" :> "none") @@ @,
                   !.ret = Undef]

\* document.body.removeChild(elem); no return statement
destroy(w) ==
    IF w.err # "none" THEN w
    ELSE IF w.ret.t # "handle" THEN Throw(w, "TypeError")
    ELSE IF w.dom[w.ret.i][w.ret.k].parentNode # Body THEN Throw(w, "NotFoundError")
    ELSE [w EXCEPT !.dom[w.ret.i][w.ret.k].parentNode = Undef, !.ret = Undef]

hide(w) ==
    IF w.err # "none" THEN w
    ELSE IF w.ret.t # "handle" THEN Throw(w, "TypeError")
    ELSE [w EXCEPT !.dom[w.ret.i][w.ret.k].style = ("display" :> "none") @@ @,
                   !.ret = Undef]

\* mutant: show leaves the display property as it is
showKeepsDisplay(w) ==
    IF w.err # "none" THEN w
    ELSE IF w.ret.t # "handle" THEN Throw(w, "TypeError")
    ELSE [w EXCEPT !.ret = Undef]

show(w) ==
    IF w.err # "none" THEN w
    ELSE IF w.ret.t # "handle" THEN Throw(w, "TypeError")
    ELSE [w EXCEPT !.dom[w.ret.i][w.ret.k].style = ("display" :> "block") @@ @,
                   !.ret = Undef]

\* ---------------------------------------------------------------- observable
\* callbacks.push(callback)
watch(cbs, callback) == Append(cbs, callback)

\* mutant: the loop starts at the second callback
triggerFromOne(w, i, c, modal) ==
    IF w.err # "none" THEN w
    ELSE [w EXCEPT !.timers = @ \o [n \in 1..(Len(callbacks[i][c]) - 1) |->
                                      [i |-> i, c |-> c, n |-> n + 1, arg |-> modal]],
                   !.trace = Append(@, c),
                   !.ret = Undef]

\* mutant: one callbacks array per channel, shared by every modal
AllCallbacks(c, modal) ==
    LET RECURSIVE Upto(_)
        Upto(j) == IF j = 0 THEN <<>>
                   ELSE Upto(j - 1) \o [n \in 1..Len(callbacks[j][c]) |->
                                          [i |-> j, c |-> c, n |-> n, arg |-> modal]]
    IN  Upto(NumModals)

triggerShared(w, i, c, modal) ==
    IF w.err # "none" THEN w
    ELSE [w EXCEPT !.timers = @ \o AllCallbacks(c, modal),
                   !.trace = Append(@, c),
                   !.ret = Undef]

\* mutant: the loop over the callbacks runs from the last to the first
triggerReversed(w, i, c, modal) ==
    IF w.err # "none" THEN w
    ELSE [w EXCEPT !.timers = @ \o [n \in 1..Len(callbacks[i][c]) |->
                                      [i |-> i, c |-> c, n |-> Len(callbacks[i][c]) + 1 - n,
                                       arg |-> modal]],
                   !.trace = Append(@, c),
                   !.ret = Undef]

\* for each callback: window.setTimeout(callbacks[i].bind(window, modal), 1)
trigger(w, i, c, modal) ==
    IF w.err # "none" THEN w
    ELSE [w EXCEPT !.timers = @ \o [n \in 1..Len(callbacks[i][c]) |->
                                      [i |-> i, c |-> c, n |-> n, arg |-> modal]],
                   !.trace = Append(@, c),
                   !.ret = Undef]

\* history: an event of channel c of modal i has happened
event(w, i, c) ==
    IF w.err # "none" THEN w
    ELSE [w EXCEPT !.owed[i][c] = [n \in DOMAIN @ |-> @[n] + 1]]

\* a callback bound by trigger is called
invoke(w, t) ==
    [w EXCEPT !.owed[t.i][t.c][t.n] = @ - 1, !.invoked = Append(@, t)]

\* ---------------------------------------------------------------- builders
OverlayDefaults ==
    [display |-> "block", position |-> "fixed", top |-> "0px", left |-> "0px",
     height |-> "100%", width |-> [n |-> 100, d |-> 1, u |-> "%"], zIndex |-> 10000]

OverlayStyleDefaults == [opacity |-> [n |-> 1, d |-> 2], background |-> "#000"]

ModalDefaults ==
    [display |-> "block", position |-> "fixed", zIndex |-> 10001, left |-> "50%",
     top |-> "50px"]

ModalStyleDefaults == [backgroundColor |-> "white", padding |-> "20px", borderRadius |-> "5px"]

CloseStyleDefaults ==
    [borderRadius |-> "2px", cursor |-> "pointer", height |-> "15px", width |-> Px(15),
     position |-> "absolute", top |-> "5px", right |-> "5px", fontSize |-> "16px",
     textAlign |-> "center", lineHeight |-> "15px", background |-> "#CCC"]

NoContent == [type |-> "undefined", v |-> "", opts |-> <<>>]

\* mutant: the overlay's click is bound to close whatever overlayClose says
buildOverlayAlwaysCloses(w, i) ==
    LET a == make(w, i, "shadow", Undef)
        b == clazz(a, "pico-overlay")
        c == stylize(b, OverlayDefaults)
        d == stylize(c, getOption(i, "overlayStyles", OverlayStyleDefaults))
    IN  onClick(d, "close")

buildOverlay(w, i) ==
    LET a == make(w, i, "shadow", Undef)
        b == clazz(a, "pico-overlay")
        c == stylize(b, OverlayDefaults)
        d == stylize(c, getOption(i, "overlayStyles", OverlayStyleDefaults))
    IN  onClick(d, IF getOption(i, "overlayClose", TRUE) THEN "close" ELSE "noop")

buildModal(w, i) ==
    LET a == make(w, i, "modal", Undef)
        b == clazz(a, "pico-content")
        c == stylize(b, ModalDefaults)
        elem == html(c, getOption(i, "content", NoContent))
        width == getOption(i, "width", layout[i])
        d == stylize(elem, [width |-> Px(width),
                            margin |-> [top |-> "0", right |-> "0", bottom |-> "0",
                                        left |-> NegHalfPx(width)]])
    IN  stylize(d, getOption(i, "modalStyles", ModalStyleDefaults))

\* ---------------------------------------------------------------- memoize
\* mutant: notCalled is never cleared
memoizeForgets(w, i, k, r) ==
    IF w.err # "none" THEN w ELSE r

\* r is the world after callback.apply(this, arguments), evaluated on demand
memoize(w, i, k, r) ==
    IF w.err # "none" THEN w
    ELSE IF w.memo[i][k].notCalled
         THEN IF r.err # "none" THEN r
              ELSE [r EXCEPT !.memo[i][k] = [notCalled |-> FALSE, result |-> r.ret]]
         ELSE [w EXCEPT !.ret = w.memo[i][k].result]

\* mutant: the after-create trigger sits outside the memoized builder
modalElemMemoTriggersEachCall(w, i) ==
    LET elem == memoize(w, i, "modal", event(buildModal(w, i), i, "create"))
        t == trigger(elem, i, "create", Facade(i))
    IN  IF t.err # "none" THEN t ELSE [t EXCEPT !.ret = elem.ret]

\* var modalElem = memoize(function() { buildModal; afterCreateEvent.trigger; return elem })
modalElemMemo(w, i) ==
    memoize(w, i, "modal",
            LET elem == buildModal(w, i)
                t == trigger(event(elem, i, "create"), i, "create", Facade(i))
            IN  IF t.err # "none" THEN t ELSE [t EXCEPT !.ret = elem.ret])

\* var shadowElem = memoize(buildOverlay.bind(window, getOption, close))
shadowElemMemo(w, i) == memoize(w, i, "shadow", buildOverlay(w, i))

\* mutant: the closeButton option is not consulted
buildCloseAlways(w, i) ==
    IF w.err # "none" THEN w
    ELSE LET a == child(modalElemMemo(w, i), i, "close")
             b == html(a, getOption(i, "closeHtml", [type |-> "string", v |-> "&#xD7;", opts |-> <<>>]))
             c == clazz(b, "pico-close")
             d == stylize(c, getOption(i, "closeStyles", CloseStyleDefaults))
         IN  onClick(d, "close")

\* elem is the memoized modalElem bound when closeElem was defined
buildClose(w, i) ==
    IF w.err # "none" THEN w
    ELSE IF getOption(i, "closeButton", TRUE)
    THEN LET a == child(modalElemMemo(w, i), i, "close")
             b == html(a, getOption(i, "closeHtml", [type |-> "string", v |-> "&#xD7;", opts |-> <<>>]))
             c == clazz(b, "pico-close")
             d == stylize(c, getOption(i, "closeStyles", CloseStyleDefaults))
         IN  onClick(d, "close")
    ELSE [w EXCEPT !.ret = Undef]

\* var closeElem = memoize(buildClose.bind(window, modalElem, getOption, close))
closeElemMemo(w, i) == memoize(w, i, "close", buildClose(w, i))

\* a call through one of the closure variables modalElem, shadowElem, closeElem
callVar(w, i, v) ==
    IF w.err # "none" THEN w
    ELSE IF w.fn[i][v].t # "memo" THEN Throw(w, "TypeError")
    ELSE CASE w.fn[i][v].k = "modal" -> modalElemMemo(w, i)
           [] w.fn[i][v].k = "shadow" -> shadowElemMemo(w, i)
           [] w.fn[i][v].k = "close" -> closeElemMemo(w, i)

\* builder().elem
buildElemAccessor(r) ==
    IF r.err # "none" THEN r
    ELSE IF r.ret.t # "handle" THEN Throw(r, "TypeError")
    ELSE [r EXCEPT !.ret = Elem(r.ret.i, r.ret.k)]

\* ---------------------------------------------------------------- facade
\* mutant: close triggers the observers only when the content box was shown
closeIfVisible(w, i) ==
    LET a == hide(callVar(w, i, "shadowElem"))
        b == hide(callVar(a, i, "modalElem"))
    IN  IF w.dom[i]["modal"].made > 0 /\ "display" \in DOMAIN w.dom[i]["modal"].style
           /\ w.dom[i]["modal"].style["display"] = "block"
        THEN trigger(event(b, i, "close"), i, "close", Facade(i))
        ELSE b

close(w, i) ==
    LET a == hide(callVar(w, i, "shadowElem"))
        b == hide(callVar(a, i, "modalElem"))
    IN  trigger(event(b, i, "close"), i, "close", Facade(i))

\* callback.apply(this, arguments); return this
returnIface(r, i) == IF r.err # "none" THEN r ELSE [r EXCEPT !.ret = Facade(i)]

ifaceShow(w, i) ==
    LET a == show(callVar(w, i, "shadowElem"))
        b == callVar(a, i, "closeElem")
        c == show(callVar(b, i, "modalElem"))
        d == trigger(event(c, i, "show"), i, "show", Facade(i))
    IN  IF d.err # "none" THEN d ELSE [d EXCEPT !.ret = Facade(i)]

ifaceClose(w, i) == returnIface(close(w, i), i)

\* mutant: destroy removes the elements and keeps the closure variables
ifaceDestroyKeepsVars(w, i) ==
    LET a == destroy(callVar(w, i, "modalElem"))
        b == destroy(callVar(a, i, "shadowElem"))
    IN  IF b.err # "none" THEN b ELSE [b EXCEPT !.ret = Undef]

\* mutant: destroy also clears the timers that would call the modal's callbacks
ifaceDestroyCancels(w, i) ==
    LET a == destroy(callVar(w, i, "modalElem"))
        a2 == IF a.err # "none" THEN a ELSE [a EXCEPT !.fn[i]["modalElem"] = a.ret]
        b == destroy(callVar(a2, i, "shadowElem"))
    IN  IF b.err # "none" THEN b
        ELSE [b EXCEPT !.fn[i]["shadowElem"] = b.ret, !.fn[i]["closeElem"] = Undef,
                       !.timers = SelectSeq(@, LAMBDA t : t.i # i),
                       !.ret = Undef]

\* mutant: destroy closes the modal before it removes the elements
ifaceDestroyCloses(w, i) ==
    LET a == destroy(callVar(close(w, i), i, "modalElem"))
        a2 == IF a.err # "none" THEN a ELSE [a EXCEPT !.fn[i]["modalElem"] = a.ret]
        b == destroy(callVar(a2, i, "shadowElem"))
    IN  IF b.err # "none" THEN b
        ELSE [b EXCEPT !.fn[i]["shadowElem"] = b.ret, !.fn[i]["closeElem"] = Undef,
                       !.ret = Undef]

\* modalElem = modalElem().destroy(); shadowElem = shadowElem().destroy();
\* closeElem = undefined
ifaceDestroy(w, i) ==
    LET a == destroy(callVar(w, i, "modalElem"))
        a2 == IF a.err # "none" THEN a ELSE [a EXCEPT !.fn[i]["modalElem"] = a.ret]
        b == destroy(callVar(a2, i, "shadowElem"))
    IN  IF b.err # "none" THEN b
        ELSE [b EXCEPT !.fn[i]["shadowElem"] = b.ret, !.fn[i]["closeElem"] = Undef,
                       !.ret = Undef]

\* the accessors hold the memoized functions themselves, not the variables
ifaceModalElem(w, i) == buildElemAccessor(modalElemMemo(w, i))

\* mutant: the close-button accessor is built over the overlay's builder
ifaceCloseElemWrongBuilder(w, i) == buildElemAccessor(shadowElemMemo(w, i))

ifaceCloseElem(w, i) == buildElemAccessor(closeElemMemo(w, i))

ifaceOveralElem(w, i) == buildElemAccessor(shadowElemMemo(w, i))

\* one listener bound with onClick: close, or function(){}
listener(w, i, l) == IF l = "close" THEN close(w, i) ELSE [w EXCEPT !.ret = Undef]

\* the browser runs every click listener of the element; an exception in one
\* is reported and does not stop the next
RECURSIVE click(_, _, _)
click(w, i, ls) ==
    IF ls = <<>> THEN w
    ELSE LET r == listener([w EXCEPT !.err = "none"], i, Head(ls))
         IN  click([r EXCEPT !.err = IF w.err # "none" THEN w.err ELSE r.err], i, Tail(ls))

\* ---------------------------------------------------------------- construction
Markup == [type |-> "string", v |-> "<p>Hi</p>", opts |-> <<>>]
Node == [type |-> "node", v |-> "p", opts |-> <<>>]
Obj(o) == [type |-> "object", v |-> "", opts |-> o]

\* if ( isString(options) || isNode(options) ) options = { content: options }
picoModal(arg) ==
    IF isString(arg) \/ isNode(arg) THEN ("content" :> arg) ELSE arg.opts

Choices(name, values) == {<<>>} \cup {name :> x : x \in values}

\* the arguments the behavioural specification constructs modals with
Args ==
    {Markup, Node,
     Obj(("content" :> Markup) @@ ("overlayStyles" :> [display |-> "none"])
                               @@ ("modalStyles" :> [display |-> "none"]))} \cup
    {Obj(("content" :> Markup) @@ oc @@ cb) :
        oc \in Choices("overlayClose", BOOLEAN), cb \in Choices("closeButton", BOOLEAN)}

StyleChoices ==
    {[width |-> [n |-> 80, d |-> 1, u |-> "%"]],
     [margin |-> [top |-> "0", right |-> "0", bottom |-> "0",
                  left |-> [n |-> 0, d |-> 1, u |-> "auto"]]],
     [display |-> "none"]}

\* the arguments of the two modals of a page: the one-line form, and a modal
\* that only its own close() dismisses
PageArgs ==
    <<Markup,
      Obj(("content" :> Markup) @@ ("overlayClose" :> FALSE) @@ ("closeButton" :> FALSE))>>

\* the arguments the sizing specification constructs modals with
WidthArgs ==
    {Obj(("content" :> Markup) @@ wd @@ ms) :
        wd \in Choices("width", 0..MaxWidth), ms \in Choices("modalStyles", StyleChoices)}

InitState ==
    /\ fn = [i \in Instances |->
                [modalElem |-> MemoFn("modal"), shadowElem |-> MemoFn("shadow"),
                 closeElem |-> MemoFn("close")]]
    /\ memo = [i \in Instances |-> [k \in Kinds |-> [notCalled |-> TRUE, result |-> Undef]]]
    /\ dom = [i \in Instances |-> [k \in Kinds |-> NoElem]]
    /\ callbacks = [i \in Instances |-> [c \in Channels |-> <<>>]]
    /\ timers = <<>>
    /\ owed = [i \in Instances |-> [c \in Channels |-> <<>>]]
    /\ last = [i |-> 0, op |-> "picoModal", err |-> "none", ret |-> Undef,
               trace |-> <<>>, invoked |-> <<>>]

\* one modal, constructed with any of the behavioural arguments
Init ==
    /\ modals = {1}
    /\ options \in [Instances -> {picoModal(a) : a \in Args}]
    /\ \A i \in Instances \ modals : options[i] = picoModal(Markup)
    /\ layout = [i \in Instances |-> MaxClientWidth]
    /\ InitState

\* two modals on one page
InitPage ==
    /\ modals \in {S \in SUBSET Instances : Cardinality(S) = Len(PageArgs)}
    /\ options = [i \in Instances |->
                    picoModal(PageArgs[IF \A j \in modals : i <= j THEN 1 ELSE 2])]
    /\ layout = [i \in Instances |-> MaxClientWidth]
    /\ InitState

\* one modal, constructed with any of the sizing arguments; the measured
\* width varies where it is read, that is where no width option is given
InitWidth ==
    /\ modals = {1}
    /\ options \in [Instances -> {picoModal(a) : a \in WidthArgs}]
    /\ \A i \in Instances \ modals : options[i] = picoModal(Obj("content" :> Markup))
    /\ layout \in [Instances -> 0..MaxClientWidth]
    /\ \A i \in Instances :
          (i \notin modals \/ "width" \in DOMAIN options[i]) => layout[i] = MaxClientWidth
    /\ InitState

\* ---------------------------------------------------------------- actions
World ==
    [fn |-> fn, memo |-> memo, dom |-> dom, timers |-> timers, owed |-> owed,
     trace |-> <<>>, invoked |-> <<>>, err |-> "none", ret |-> Undef]

\* the step of a handler that ends in world r; the guard caps the timer queue
Step(i, op, r) ==
    /\ i \in modals
    /\ Len(r.timers) <= MaxTimers
    /\ fn' = r.fn
    /\ memo' = r.memo
    /\ dom' = r.dom
    /\ timers' = r.timers
    /\ owed' = r.owed
    /\ last' = [i |-> i, op |-> op, err |-> r.err, ret |-> r.ret,
                trace |-> r.trace, invoked |-> r.invoked]
    /\ UNCHANGED <<modals, options, layout, callbacks>>

InDocument(d, i, k) ==
    \/ d[i][k].parentNode = Body
    \/ /\ d[i][k].parentNode.t = "elem"
       /\ d[d[i][k].parentNode.i][d[i][k].parentNode.k].parentNode = Body

Show(i) == Step(i, "show", ifaceShow(World, i))

Close(i) == Step(i, "close", ifaceClose(World, i))

Destroy(i) == Step(i, "destroy", ifaceDestroy(World, i))

ModalElem(i) == Step(i, "modalElem", ifaceModalElem(World, i))

CloseElem(i) == Step(i, "closeElem", ifaceCloseElem(World, i))

OveralElem(i) == Step(i, "overalElem", ifaceOveralElem(World, i))

\* a click the document delivers to an element it contains
Click(i, k) ==
    /\ dom[i][k].made > 0
    /\ InDocument(dom, i, k)
    /\ Step(i, "click-" \o k, click(World, i, dom[i][k].onclick))

RECURSIVE Sum(_, _)
Sum(f, S) == IF S = {} THEN 0 ELSE LET x == CHOOSE y \in S : TRUE IN f[x] + Sum(f, S \ {x})

\* the callbacks registered, over all modals and channels
Registered(cbs) ==
    Sum([j \in Instances |-> Sum([c \in Channels |-> Len(cbs[j][c])], Channels)], Instances)

\* mutant: a callback registered while a dispatch of its channel is queued
\* joins that dispatch
WatchJoinsPending(i, c, f) ==
    LET queued == \E m \in 1..Len(timers) : timers[m].i = i /\ timers[m].c = c
        n == Len(callbacks[i][c]) + 1
    IN  /\ i \in modals
        /\ Registered(callbacks) < MaxCallbacks
        /\ callbacks' = [callbacks EXCEPT ![i][c] = watch(@, f)]
        /\ owed' = [owed EXCEPT ![i][c] = Append(@, IF queued THEN 1 ELSE 0)]
        /\ timers' = IF queued
                     THEN Append(timers, [i |-> i, c |-> c, n |-> n, arg |-> Facade(i)])
                     ELSE timers
        /\ last' = [i |-> i, op |-> "watch", err |-> "none", ret |-> Facade(i),
                    trace |-> <<>>, invoked |-> <<>>]
        /\ UNCHANGED <<modals, options, layout, fn, memo, dom>>

\* afterCreate(f), afterShow(f), afterClose(f): returnIface(watch)
Watch(i, c, f) ==
    /\ i \in modals
    /\ Registered(callbacks) < MaxCallbacks
    /\ callbacks' = [callbacks EXCEPT ![i][c] = watch(@, f)]
    /\ owed' = [owed EXCEPT ![i][c] = Append(@, 0)]
    /\ last' = [i |-> i, op |-> "watch", err |-> "none", ret |-> Facade(i),
                trace |-> <<>>, invoked |-> <<>>]
    /\ UNCHANGED <<modals, options, layout, fn, memo, dom, timers>>

\* the event loop runs the oldest timer task: callbacks[n].bind(window, modal)()
Timer ==
    /\ timers # <<>>
    /\ Step(Head(timers).i, "timer", invoke([World EXCEPT !.timers = Tail(timers)], Head(timers)))

Functions == {"f"}

Next ==
    \/ \E i \in Instances : Show(i)
    \/ \E i \in Instances : Close(i)
    \/ \E i \in Instances : Destroy(i)
    \/ \E i \in Instances : ModalElem(i)
    \/ \E i \in Instances : CloseElem(i)
    \/ \E i \in Instances : OveralElem(i)
    \/ \E i \in Instances, k \in Kinds : Click(i, k)
    \/ \E i \in Instances, c \in Channels, f \in Functions : Watch(i, c, f)
    \/ Timer

Spec == Init /\ [][Next]_vars

\* two modals on one page: every operation on either, the callbacks
\* registered on the after-show channel
NextPage ==
    \/ \E i \in Instances : Show(i)
    \/ \E i \in Instances : Close(i)
    \/ \E i \in Instances : Destroy(i)
    \/ \E i \in Instances : ModalElem(i)
    \/ \E i \in Instances : CloseElem(i)
    \/ \E i \in Instances : OveralElem(i)
    \/ \E i \in Instances, k \in Kinds : Click(i, k)
    \/ \E i \in Instances, f \in Functions : Watch(i, "show", f)
    \/ Timer

SpecPage == InitPage /\ [][NextPage]_vars

SpecWidth == InitWidth /\ [][Next]_vars

\* the event loop does not starve a timer that is due
FairSpec == Init /\ [][Next]_vars /\ WF_vars(Timer)

\* the page never calls show(): every other operation stays available
NextNoShow ==
    \/ \E i \in Instances : Close(i)
    \/ \E i \in Instances : Destroy(i)
    \/ \E i \in Instances : ModalElem(i)
    \/ \E i \in Instances : CloseElem(i)
    \/ \E i \in Instances : OveralElem(i)
    \/ \E i \in Instances, k \in Kinds : Click(i, k)
    \/ \E i \in Instances, c \in Channels, f \in Functions : Watch(i, c, f)
    \/ Timer

SpecNoShow == Init /\ [][NextNoShow]_vars

\* the operations of the handle make() returns, called on the handle of an
\* element that was built: the worlds a call of mutator m can end in
Mutators == {"stylize", "clazz", "html", "onClick", "destroy", "hide", "show"}

Mutation(w, m) ==
    CASE m = "stylize" -> {stylize(w, [display |-> "none"])}
      [] m = "clazz" -> {clazz(w, "pico-x")}
      [] m = "html" -> {html(w, Markup)}
      [] m = "onClick" -> {onClick(w, "noop")}
      [] m = "destroy" -> {destroy(w)}
      [] m = "hide" -> {hide(w)}
      [] m = "show" -> {show(w)}

\* the class names, children and listeners of an element
Added(e) == Len(e.className) + Len(e.html) + Len(e.onclick)

Mutate(i, k, m) ==
    /\ dom[i][k].made > 0
    /\ \E r \in Mutation([World EXCEPT !.ret = Handle(i, k)], m) :
          /\ Added(r.dom[i][k]) <= MaxChain
          /\ Step(i, "make." \o m, r)

\* one modal, constructed from a markup string
InitMake ==
    /\ modals = {1}
    /\ options = [i \in Instances |-> picoModal(Markup)]
    /\ layout = [i \in Instances |-> MaxClientWidth]
    /\ InitState

NextMake ==
    \/ \E i \in Instances : ModalElem(i)
    \/ \E i \in Instances : CloseElem(i)
    \/ \E i \in Instances : OveralElem(i)
    \/ \E i \in Instances, k \in Kinds, m \in Mutators : Mutate(i, k, m)

SpecMake == InitMake /\ [][NextMake]_vars

\* ---------------------------------------------------------------- observations
Built(i, k) == dom[i][k].made > 0

Display(d, i, k) == IF "display" \in DOMAIN d[i][k].style THEN d[i][k].style["display"] ELSE ""

\* the element is rendered: in the document and not display: none
Visible(i, k) == Built(i, k) /\ InDocument(dom, i, k) /\ Display(dom, i, k) = "block"

Hidden(i, k) == Built(i, k) /\ Display(dom, i, k) = "none"

RECURSIVE Count(_, _)
Count(x, seq) == IF seq = <<>> THEN 0 ELSE (IF Head(seq) = x THEN 1 ELSE 0) + Count(x, Tail(seq))

\* the timer tasks that will call callback n of channel c of modal i
Pending(q, i, c, n) == Cardinality({m \in 1..Len(q) : q[m].i = i /\ q[m].c = c /\ q[m].n = n})

\* overlay and content box were built and removed from the document
Gone(i) ==
    /\ Built(i, "shadow") /\ Built(i, "modal")
    /\ \A k \in Kinds : Built(i, k) => ~InDocument(dom, i, k)

Returned(op) == last.op = op /\ last.err = "none"

\* ---------------------------------------------------------------- claims

\* C1: after show() returns, the overlay and the content box are both visible;
\* after close() returns, both are hidden; a second show() (close()) in a row
\* leaves the display of both as the first left it.
C1Visibility ==
    /\ Returned("show") => Visible(last.i, "shadow") /\ Visible(last.i, "modal")
    /\ Returned("close") => Hidden(last.i, "shadow") /\ Hidden(last.i, "modal")

C1Repeat ==
    \A op \in {"show", "close"} :
        (Returned(op) /\ last'.op = op /\ last'.err = "none" /\ last'.i = last.i)
            => \A k \in {"shadow", "modal"} :
                  Display(dom', last.i, k) = Display(dom, last.i, k)

C1 == []C1Visibility /\ [][C1Repeat]_vars

\* a modal built with display: none in both style options, shown, with an
\* after-show dispatch still pending
C1Witness ==
    /\ Returned("show")
    /\ "modalStyles" \in DOMAIN options[1]
    /\ Visible(1, "shadow") /\ Visible(1, "modal")
    /\ Len(timers) = 2

\* C2: overlay, content box and close button are each constructed at most
\* once per modal, and a built element is the one every later call returns.
C2 ==
    \A i \in Instances, k \in Kinds :
        /\ dom[i][k].made <= 1
        /\ (~memo[i][k].notCalled /\ memo[i][k].result # Undef)
              => dom[i][k].made = 1 /\ memo[i][k].result = Handle(i, k)
        /\ (last.i = i /\ last.err = "none" /\ last.ret.t = "elem")
              => dom[i][last.ret.k].made = 1

\* all three elements exist, the modal was shown and closed, and an accessor
\* has just returned the overlay
C2Witness ==
    /\ Returned("overalElem")
    /\ \A k \in Kinds : dom[1][k].made = 1
    /\ Hidden(1, "shadow") /\ Hidden(1, "modal")

\* C3: every registered callback is called once per event of its channel that
\* happened while it was registered (called or still queued), with the facade
\* as argument, and only from a timer task, never inside the triggering call.
C3 ==
    /\ \A i \in Instances, c \in Channels :
          /\ Len(owed[i][c]) = Len(callbacks[i][c])
          /\ \A n \in 1..Len(callbacks[i][c]) : owed[i][c][n] = Pending(timers, i, c, n)
    /\ last.op # "timer" => last.invoked = <<>>
    /\ \A m \in 1..Len(last.invoked) : last.invoked[m].arg = Facade(last.invoked[m].i)

\* a timer task has just called an after-create callback while an after-show
\* dispatch of the same show() is still queued
C3Witness ==
    /\ last.op = "timer"
    /\ Len(last.invoked) = 1
    /\ last.invoked[1].c = "create"
    /\ Len(timers) = 1
    /\ timers[1].c = "show"

\* C4: with overlayClose false a click on the overlay changes no element and
\* triggers nothing; with overlayClose true or unset it hides overlay and
\* content box and triggers the after-close observers.
C4Closes ==
    (last.op = "click-shadow" /\ getOption(last.i, "overlayClose", TRUE) # FALSE)
        => /\ last.err = "none"
           /\ Hidden(last.i, "shadow") /\ Hidden(last.i, "modal")
           /\ last.trace = <<"close">> \/ last.trace = <<"create", "close">>

C4Absorbs ==
    (last'.op = "click-shadow" /\ getOption(last'.i, "overlayClose", TRUE) = FALSE)
        => /\ dom' = dom
           /\ timers' = timers
           /\ last'.trace = <<>>

C4 == []C4Closes /\ [][C4Absorbs]_vars

\* the overlay of a shown modal with overlayClose false was clicked and the
\* modal is still visible
C4Witness ==
    /\ last.op = "click-shadow"
    /\ getOption(1, "overlayClose", TRUE) = FALSE
    /\ Visible(1, "shadow") /\ Visible(1, "modal")

\* C5: with closeButton false no close button is ever made; with closeButton
\* true or unset a close button exists inside the content box once show() has
\* returned, and a click on it hides overlay and content box and triggers the
\* after-close observers.
C5 ==
    \A i \in Instances :
        /\ getOption(i, "closeButton", TRUE) = FALSE => dom[i]["close"].made = 0
        /\ (getOption(i, "closeButton", TRUE) # FALSE /\ Returned("show") /\ last.i = i)
              => /\ dom[i]["close"].made = 1
                 /\ dom[i]["close"].parentNode = Elem(i, "modal")
                 /\ dom[i]["close"].onclick = <<"close">>
        /\ (last.op = "click-close" /\ last.i = i)
              => /\ last.err = "none"
                 /\ Hidden(i, "shadow") /\ Hidden(i, "modal")
                 /\ last.trace = <<"close">>

\* the close button of a modal was clicked and the after-close dispatch is queued
C5Witness ==
    /\ last.op = "click-close"
    /\ Hidden(1, "shadow") /\ Hidden(1, "modal")
    /\ timers # <<>>
    /\ timers[Len(timers)].c = "close"

\* C6: once destroy() has returned, overlay, content box and close button are
\* out of the document, and no later step puts an element of the modal back.
C6Detached == Returned("destroy") => Gone(last.i)

C6Stays == \A i \in Instances : Gone(i) => Gone(i)'

C6 == []C6Detached /\ [][C6Stays]_vars

\* after destroy(), the close-button accessor has made a close button under
\* the detached content box
C6Witness ==
    /\ Returned("closeElem")
    /\ Gone(1)
    /\ dom[1]["close"].made = 1
    /\ fn[1]["closeElem"] = Undef

\* C7: the after-create observers are triggered in exactly the step that
\* constructs the content box, and the content box is constructed once.
C7Once == \A i \in Instances : dom[i]["modal"].made <= 1

C7AtConstruction ==
    \A i \in Instances :
        dom'[i]["modal"].made - dom[i]["modal"].made =
            IF last'.i = i THEN Count("create", last'.trace) ELSE 0

C7 == []C7Once /\ [][C7AtConstruction]_vars

\* destroy() on a modal without a content box has constructed it and
\* triggered the after-create observers
C7Witness ==
    /\ Returned("destroy")
    /\ last.trace = <<"create">>
    /\ dom[1]["modal"].made = 1

\* C8: a step of one modal leaves the elements, the callbacks, the memo cells,
\* the closure variables and the queued dispatches of every other modal as
\* they were.
TasksOf(q, j) == SelectSeq(q, LAMBDA t : t.i = j)

C8Frame ==
    \A j \in Instances :
        j # last'.i =>
            /\ dom'[j] = dom[j]
            /\ callbacks'[j] = callbacks[j]
            /\ memo'[j] = memo[j]
            /\ fn'[j] = fn[j]
            /\ TasksOf(timers', j) = TasksOf(timers, j)

C8 == [][C8Frame]_vars

\* one modal is destroyed while another is visible and has a dispatch queued
C8Witness ==
    \E i, j \in modals :
        /\ i # j
        /\ Returned("destroy") /\ last.i = i
        /\ Gone(i)
        /\ Visible(j, "shadow") /\ Visible(j, "modal")
        /\ TasksOf(timers, j) # <<>>

\* C9 (as stated): after destroy(), show(), close() and destroy() raise no
\* error and change no state.
C9Calls == {"show", "close", "destroy"}

C9Silent ==
    \A i \in Instances :
        (Gone(i) /\ last'.i = i /\ last'.op \in C9Calls)
            => /\ last'.err = "none"
               /\ UNCHANGED <<fn, memo, dom, callbacks, timers, owed>>

C9AsStated == [][C9Silent]_vars

\* C9 (amended): after destroy(), show(), close() and destroy() throw a
\* TypeError and change no state.
C9Throws ==
    \A i \in Instances :
        (Gone(i) /\ last'.i = i /\ last'.op \in C9Calls)
            => /\ last'.err = "TypeError"
               /\ last'.trace = <<>>
               /\ UNCHANGED <<fn, memo, dom, callbacks, timers, owed>>

C9 == [][C9Throws]_vars

\* show() was called on a destroyed modal
C9Witness ==
    /\ last.op = "show"
    /\ last.err = "TypeError"
    /\ Gone(1)

\* C10 (as stated): with a numeric width w the content box has width w px and
\* left margin -w/2 px, whatever else the configuration holds.
Sized(i, w) ==
    /\ "width" \in DOMAIN dom[i]["modal"].style
    /\ dom[i]["modal"].style["width"] = Px(w)
    /\ "margin" \in DOMAIN dom[i]["modal"].style
    /\ dom[i]["modal"].style["margin"].left.u = "px"
    /\ 2 * dom[i]["modal"].style["margin"].left.n = -w * dom[i]["modal"].style["margin"].left.d

C10AsStated ==
    \A i \in modals :
        ("width" \in DOMAIN options[i] /\ Built(i, "modal")) => Sized(i, options[i]["width"])

\* C10 (amended): the same, for configurations whose modalStyles set neither
\* width nor margin.
StylesKeepSize(i) ==
    "modalStyles" \in DOMAIN options[i]
        => {"width", "margin"} \cap DOMAIN options[i]["modalStyles"] = {}

C10 ==
    \A i \in modals :
        ("width" \in DOMAIN options[i] /\ StylesKeepSize(i) /\ Built(i, "modal"))
            => Sized(i, options[i]["width"])

\* a content box of odd width 3 built under a modalStyles option
C10Witness ==
    /\ Built(1, "modal")
    /\ "width" \in DOMAIN options[1]
    /\ options[1]["width"] = 3
    /\ "modalStyles" \in DOMAIN options[1]
    /\ StylesKeepSize(1)
    /\ Sized(1, 3)

\* C11 (as stated): while show() has never been called, no built overlay or
\* content box of the modal is visible.
C11AsStated ==
    \A i \in modals : ~Visible(i, "shadow") /\ ~Visible(i, "modal")

\* C12 (as stated): on a modal with no element yet, show() and each element
\* accessor leave both the overlay and the content box constructed.
Uninitialized(i) == \A k \in Kinds : dom[i][k].made = 0

C12Calls == {"show", "modalElem", "closeElem", "overalElem"}

C12BuildsBoth ==
    \A i \in Instances :
        (Uninitialized(i) /\ last'.i = i /\ last'.op \in C12Calls)
            => dom'[i]["shadow"].made = 1 /\ dom'[i]["modal"].made = 1

C12AsStated == [][C12BuildsBoth]_vars

\* C12 (amended): on a modal with no element yet, show() constructs overlay
\* and content box (and the close button unless closeButton is false); an
\* accessor constructs what it returns and nothing else: the overlay accessor
\* the overlay, the content accessor the content box, the close-button
\* accessor the content box and the close button, or nothing when closeButton
\* is false.
C12Made(i, op) ==
    LET button == getOption(i, "closeButton", TRUE) # FALSE
    IN  CASE op = "show" -> IF button THEN Kinds ELSE {"shadow", "modal"}
          [] op = "overalElem" -> {"shadow"}
          [] op = "modalElem" -> {"modal"}
          [] op = "closeElem" -> IF button THEN {"modal", "close"} ELSE {}

C12BuildsItsOwn ==
    \A i \in Instances :
        (Uninitialized(i) /\ last'.i = i /\ last'.op \in C12Calls)
            => \A k \in Kinds : dom'[i][k].made = IF k \in C12Made(i, last'.op) THEN 1 ELSE 0

C12 == [][C12BuildsItsOwn]_vars

\* the close-button accessor was the first call: content box and close
\* button exist, the overlay does not
C12Witness ==
    /\ Returned("closeElem")
    /\ dom[1]["close"].made = 1
    /\ dom[1]["modal"].made = 1
    /\ dom[1]["shadow"].made = 0
    /\ memo[1]["shadow"].notCalled

\* C13: close() on a modal that was not destroyed, shown or not, completes
\* without error, leaves overlay and content box hidden, and triggers the
\* after-close channel exactly once: every callback registered on it gets
\* exactly one more deferred dispatch.
NotDestroyed(i) == \A v \in DOMAIN fn[i] : fn[i][v].t = "memo"

C13Close ==
    \A i \in Instances :
        (NotDestroyed(i) /\ last'.i = i /\ last'.op = "close")
            => /\ last'.err = "none"
               /\ last'.ret = Facade(i)
               /\ \A k \in {"shadow", "modal"} :
                     dom'[i][k].made > 0 /\ Display(dom', i, k) = "none"
               /\ Count("close", last'.trace) = 1
               /\ Count("show", last'.trace) = 0
               /\ \A n \in 1..Len(callbacks[i]["close"]) :
                     Pending(timers', i, "close", n) = Pending(timers, i, "close", n) + 1

C13 == [][C13Close]_vars

\* close() returned a second time before any dispatch ran: the one
\* after-close callback has two dispatches waiting
C13Witness ==
    /\ Returned("close")
    /\ Len(callbacks[1]["close"]) = 1
    /\ Pending(timers, 1, "close", 1) = 2
    /\ owed[1]["show"] = <<>>
    /\ Hidden(1, "shadow") /\ Hidden(1, "modal")

\* C14: a deferred dispatch is never cancelled. No call, close() and destroy()
\* included, removes a queued dispatch: only the event loop does, one at a
\* time, by invoking it. Under a fair event loop a callback with a queued
\* dispatch is always invoked again later, until none is queued; so is an
\* after-show callback of a modal that has been destroyed.
IsPrefix(q, r) == Len(q) <= Len(r) /\ SubSeq(r, 1, Len(q)) = q

Ran(i, c, n) ==
    /\ last.op = "timer"
    /\ Len(last.invoked) = 1
    /\ last.invoked[1].i = i /\ last.invoked[1].c = c /\ last.invoked[1].n = n

C14Kept ==
    IF last'.op = "timer"
    THEN timers # <<>> /\ timers' = Tail(timers) /\ last'.invoked = <<Head(timers)>>
    ELSE IsPrefix(timers, timers') /\ last'.invoked = <<>>

C14Runs ==
    \A i \in Instances, c \in Channels, n \in 1..MaxCallbacks :
        []<>(Pending(timers, i, c, n) = 0 \/ Ran(i, c, n))

C14Late ==
    \A i \in Instances, n \in 1..MaxCallbacks :
        []<>(~Gone(i) \/ Pending(timers, i, "show", n) = 0 \/ Ran(i, "show", n))

C14 == [][C14Kept]_vars /\ C14Runs /\ C14Late

\* an after-show callback has just run on a modal that was destroyed after
\* the show() that triggered it
C14Witness ==
    /\ Ran(1, "show", 1)
    /\ Gone(1)
    /\ ~NotDestroyed(1)

\* C15 (as stated): on a modal configured with closeButton false, a call of
\* the close-button accessor completes without error, returns no element and
\* creates no element.
C15AsStated ==
    (last.op = "closeElem" /\ getOption(last.i, "closeButton", TRUE) = FALSE)
        => /\ last.err = "none"
           /\ last.ret = Undef
           /\ dom[last.i]["close"].made = 0

\* C16: a trigger queues a dispatch for exactly the callbacks registered on
\* its channel at that moment; registering a callback queues nothing, so the
\* new callback has no part in a trigger that came before it; and once the
\* content box is built nothing is queued on the after-create channel again,
\* so an after-create callback registered later is never invoked.
Queued(q, r, i, c, n) == Pending(r, i, c, n) - Pending(q, i, c, n)

C16AtTrigger ==
    (last'.op \notin {"watch", "timer"}) =>
        \A i \in Instances, c \in Channels, n \in 1..MaxCallbacks :
            Queued(timers, timers', i, c, n) =
                IF i = last'.i /\ n <= Len(callbacks[i][c]) THEN Count(c, last'.trace) ELSE 0

C16AtWatch ==
    (callbacks' # callbacks) =>
        /\ last'.op = "watch"
        /\ timers' = timers
        /\ \A i \in Instances, c \in Channels :
              /\ IsPrefix(callbacks[i][c], callbacks'[i][c])
              /\ \A n \in (Len(callbacks[i][c]) + 1)..Len(callbacks'[i][c]) :
                    Pending(timers', i, c, n) = 0 /\ owed'[i][c][n] = 0

C16Created ==
    \A i \in Instances, n \in 1..MaxCallbacks :
        dom[i]["modal"].made > 0 => Queued(timers, timers', i, "create", n) <= 0

C16 == [][C16AtTrigger /\ C16AtWatch /\ C16Created]_vars

\* a second after-show callback was registered between a show() and its
\* dispatch: only the first has a dispatch queued
C16Witness ==
    /\ Returned("watch")
    /\ Len(callbacks[1]["show"]) = 2
    /\ Pending(timers, 1, "show", 1) = 1
    /\ Pending(timers, 1, "show", 2) = 0
    /\ Visible(1, "modal")

\* C17: with timer tasks run oldest first, the callbacks of one trigger run in
\* registration order, and the after-create callbacks of a content box built
\* by a show() or close() run before the after-show or after-close callbacks
\* of that call. A call schedules its dispatches in that order, and when a
\* callback runs, the earlier-registered callbacks of its channel have no
\* older dispatch left and no after-create dispatch of the modal is left.
Scheduled(q, r) == SubSeq(r, Len(q) + 1, Len(r))

C17Scheduled ==
    (last'.op # "timer" /\ IsPrefix(timers, timers')) =>
        LET new == Scheduled(timers, timers')
        IN  \A a, b \in 1..Len(new) :
                a < b => /\ new[a].i = new[b].i
                         /\ new[a].c = new[b].c => new[a].n < new[b].n
                         /\ new[b].c = "create" => new[a].c = "create"

C17Order ==
    \A i \in Instances, c \in Channels, n \in 1..MaxCallbacks :
        Ran(i, c, n) =>
            /\ \A m \in 1..(n - 1) : Pending(timers, i, c, m) = Pending(timers, i, c, n)
            /\ c # "create" => \A m \in 1..MaxCallbacks : Pending(timers, i, "create", m) = 0

C17 == []C17Order /\ [][C17Scheduled]_vars

\* the after-create callback has just run on a closed modal and the
\* after-close dispatch scheduled behind it is next
C17Witness ==
    /\ Ran(1, "create", 1)
    /\ Len(timers) = 1
    /\ timers[1].c = "close" /\ timers[1].n = 1
    /\ Hidden(1, "modal")

\* C18: destroy() never triggers the after-show or after-close channel and
\* never builds a close button. On a modal that was not destroyed it builds
\* the overlay and the content box if they are missing, triggering
\* after-create exactly when it builds the content box, and leaves both
\* detached from the document.
C18Destroy ==
    \A i \in Instances :
        (last'.i = i /\ last'.op = "destroy") =>
            /\ Count("show", last'.trace) = 0
            /\ Count("close", last'.trace) = 0
            /\ owed'[i]["show"] = owed[i]["show"]
            /\ owed'[i]["close"] = owed[i]["close"]
            /\ dom'[i]["close"].made = dom[i]["close"].made
            /\ NotDestroyed(i) =>
                  /\ last'.err = "none"
                  /\ \A k \in {"shadow", "modal"} :
                        /\ dom'[i][k].made = 1
                        /\ ~InDocument(dom', i, k)
                  /\ Count("create", last'.trace) = IF dom[i]["modal"].made = 0 THEN 1 ELSE 0
                  /\ \A n \in 1..Len(callbacks[i]["create"]) :
                        Queued(timers, timers', i, "create", n) = Count("create", last'.trace)

C18 == [][C18Destroy]_vars

\* destroy() was the first call on the modal: overlay and content box were
\* built and detached, the after-create dispatch is queued, no close button
\* exists although the configuration asks for one
C18Witness ==
    /\ Returned("destroy")
    /\ last.trace = <<"create">>
    /\ Gone(1)
    /\ dom[1]["close"].made = 0
    /\ getOption(1, "closeButton", TRUE) # FALSE
    /\ Len(timers) = 1 /\ timers[1].c = "create"
    /\ Display(dom, 1, "modal") = "block"

\* C19 (as stated): every mutator of the handle (stylize, clazz, html, onClick,
\* destroy, hide, show) that completes returns the handle it was called on.
MutatorOps == {"make." \o m : m \in Mutators}

C19AsStated ==
    (last.op \in MutatorOps /\ last.err = "none")
        => last.ret \in {Handle(last.i, k) : k \in Kinds}

\* C19 (amended): stylize, clazz, html and onClick complete and return the
\* handle they were called on, and change no other element; destroy, hide and
\* show return nothing.
Chainable == {"make.stylize", "make.clazz", "make.html", "make.onClick"}

C19Returns ==
    /\ last.op \in Chainable
          => last.err = "none" /\ last.ret \in {Handle(last.i, k) : k \in Kinds}
    /\ (last.op \in MutatorOps \ Chainable /\ last.err = "none") => last.ret = Undef

C19Self ==
    \A i \in Instances, k \in Kinds :
        (last'.op \in Chainable /\ dom'[i][k] # dom[i][k]) => last'.ret = Handle(i, k)

C19 == []C19Returns /\ [][C19Self]_vars

\* hide() was called on the handle of the content box: the box is hidden and
\* the call returned nothing to chain on
C19Witness ==
    /\ last.op = "make.hide"
    /\ last.err = "none"
    /\ last.ret = Undef
    /\ Hidden(1, "modal")
    /\ Visible(1, "shadow")

====
